---- MODULE Spec2Model ----
(***************************************************************************)
(* Model of the image pipeline of imageoptimize: run (the executor loop),  *)
(* ProcessImage (the image value) and the Process implementations          *)
(* (load, resize, gray, optim, crop, watermark, diff).                     *)
(*                                                                         *)
(* Encoded bytes are abstracted to a record: their length, the image       *)
(* format they are really encoded in, the picture size they hold, the      *)
(* generation of the pixels they were produced from (src) and the step     *)
(* that produced the bytes (at).  Pixels are abstracted to their width,    *)
(* height and a generation number (ver): every step that writes pixels     *)
(* stamps them with the number of the step.                                *)
(***************************************************************************)
EXTENDS Integers, Sequences, FiniteSets, TLC

\* ---------------------------------------------------------------- bounds
MaxTasks == 3
MaxDim == 2
MaxLen == 2
MaxDssim == 1
MaxRun == 3

\* ------------------------------------------------------ program constants
DiffScale == 1000
GifSpeed == 10
AvifDefaultSpeed == 3
U8Max == 255
\* 2^16: half the width of the u32 that widths and heights are kept in.
U32Half == 65536

PROCESS_LOAD == "load"
PROCESS_RESIZE == "resize"
PROCESS_OPTIM == "optim"
PROCESS_CROP == "crop"
PROCESS_GRAY == "gray"
PROCESS_WATERMARK == "watermark"
PROCESS_DIFF == "diff"

IMAGE_TYPE_GIF == "gif"
IMAGE_TYPE_PNG == "png"
IMAGE_TYPE_AVIF == "avif"
IMAGE_TYPE_WEBP == "webp"
IMAGE_TYPE_JPEG == "jpeg"

\* The error variants run can return, and the two other ways it can end.
ErrorKinds ==
    {"ParamsInvalid", "Reqwest", "HTTPHeaderToStr", "Base64Decode", "Image",
     "Images", "ParseInt", "FromUtf", "Io"}

\* --------------------------------------------------------- the image value
\* Vec<u8>: vec![] is the record of length 0.
EmptyBuffer == [len |-> 0, fmt |-> "None", w |-> 0, h |-> 0, src |-> 0, at |-> 0]

\* Option<RgbaImage>
NoOriginal == [some |-> FALSE, w |-> 0, h |-> 0, ver |-> 0]

\* DynamicImage::default(): an empty picture.
DefaultDi == [w |-> 0, h |-> 0, ver |-> 0]

\* ProcessImage { ..Default::default() }
DefaultImage ==
    [original |-> NoOriginal, di |-> DefaultDi, diff |-> 0, original_size |-> 0,
     buffer |-> EmptyBuffer, ext |-> ""]

\* ImageFormat::from_extension: case-insensitive, "jpg" and "jpeg" both JPEG.
FormatFromExtension(ext) ==
    CASE ext \in {"png", "PNG"} -> "Png"
      [] ext \in {"jpg", "jpeg"} -> "Jpeg"
      [] ext = "gif" -> "Gif"
      [] ext = "webp" -> "WebP"
      [] ext = "avif" -> "Avif"
      [] OTHER -> "None"

\* str::parse::<u32>, ::<u8>, ::<i64> on the argument strings of the model.
ParseTable ==
    [s \in {"0", "1", "2", "3", "80", "100", "101", "256", "65536", "-1"} |->
        CASE s = "0" -> 0 [] s = "1" -> 1 [] s = "2" -> 2 [] s = "3" -> 3
          [] s = "80" -> 80 [] s = "100" -> 100 [] s = "101" -> 101
          [] s = "256" -> 256 [] s = "65536" -> U32Half [] s = "-1" -> -1]

\* Every number of the table is far inside u32 and i64: only the sign can
\* make it unparseable there.
ParseU32(s) ==
    IF s \in DOMAIN ParseTable /\ ParseTable[s] >= 0
    THEN [ok |-> TRUE, v |-> ParseTable[s]]
    ELSE [ok |-> FALSE, v |-> 0]

\* parse::<u8> taking every number a u32 takes.
ParseU8AsU32(s) ==
    IF s \in DOMAIN ParseTable /\ ParseTable[s] >= 0
    THEN [ok |-> TRUE, v |-> ParseTable[s]]
    ELSE [ok |-> FALSE, v |-> 0]

ParseU8(s) ==
    IF s \in DOMAIN ParseTable /\ ParseTable[s] >= 0 /\ ParseTable[s] <= U8Max
    THEN [ok |-> TRUE, v |-> ParseTable[s]]
    ELSE [ok |-> FALSE, v |-> 0]

ParseI64(s) ==
    IF s \in DOMAIN ParseTable
    THEN [ok |-> TRUE, v |-> ParseTable[s]]
    ELSE [ok |-> FALSE, v |-> 0]

\* One outcome of a step: the Result of the step (status "running" is Ok,
\* the run goes on), the image it produced, and what the step observed.
NoEnc == [fmt |-> "None", quality |-> 0, speed |-> 0]
NoAt == [x |-> 0, y |-> 0, ww |-> 0, wh |-> 0]
Ok(img) == [status |-> "running", img |-> img, data |-> EmptyBuffer, enc |-> NoEnc, at |-> NoAt]
Err(kind, img) == [status |-> kind, img |-> img, data |-> EmptyBuffer, enc |-> NoEnc, at |-> NoAt]

\* ------------------------------------------------------------------ load
\* The data references of the model and what str::starts_with and
\* str::split('.').last() give on them.
HttpRefs == {"http://h/a", "https://h/a", "httpAAAA"}
FileRefs == {"file:///a.png", "file:///a.jpg", "file:///a.gif", "file:///a"}
Base64Refs == {"iVBO", "R0lG", "%%"}
DataRefs == HttpRefs \cup FileRefs \cup Base64Refs

StartsWithHttp(data) == data \in HttpRefs
\* reqwest's get: only an absolute URL can be asked for.
IsUrl(data) == data \in {"http://h/a", "https://h/a"}
StartsWithFile(data) == data \in FileRefs

FileExt(data) ==
    CASE data = "file:///a.png" -> "png"
      [] data = "file:///a.jpg" -> "jpg"
      [] data = "file:///a.gif" -> "gif"
      [] OTHER -> data

\* What the outside world can hand back for a URL or a path: bytes that hold
\* a picture in some format, or bytes that hold none.
WorldBytes ==
    {[len |-> l, fmt |-> "Png", w |-> MaxDim, h |-> MaxDim, src |-> 0, at |-> 0] : l \in 1..MaxLen}
    \cup {[len |-> MaxLen, fmt |-> f, w |-> MaxDim, h |-> MaxDim, src |-> 0, at |-> 0] :
            f \in {"Jpeg", "Gif"}}
    \cup {[len |-> 1, fmt |-> "Png", w |-> 1, h |-> MaxDim, src |-> 0, at |-> 0],
          [len |-> 1, fmt |-> "None", w |-> 0, h |-> 0, src |-> 0, at |-> 0]}

\* The Content-Type headers of the model: absent, or a value and the pieces
\* str::split('/') cuts it into.
ContentTypes == {"absent", "image/jpeg", "a/b/c"}
ContentTypePieces(ct) ==
    CASE ct = "image/jpeg" -> <<"image", "jpeg">>
      [] ct = "a/b/c" -> <<"a", "b", "c">>
      [] OTHER -> <<>>

\* general_purpose::STANDARD.decode
Base64Decode(data) ==
    CASE data = "iVBO" ->
            [ok |-> TRUE,
             bytes |-> [len |-> 2, fmt |-> "Png", w |-> 2, h |-> 1, src |-> 0, at |-> 0]]
      [] data = "R0lG" ->
            [ok |-> TRUE,
             bytes |-> [len |-> 1, fmt |-> "Gif", w |-> 1, h |-> 1, src |-> 0, at |-> 0]]
      [] OTHER -> [ok |-> FALSE, bytes |-> EmptyBuffer]

\* image::load(Cursor, format): decodes bytes that really are in that format.
ImageLoad(bytes, format, s) ==
    IF bytes.fmt = format /\ format # "None"
    THEN [ok |-> TRUE, di |-> [w |-> bytes.w, h |-> bytes.h, ver |-> s]]
    ELSE [ok |-> FALSE, di |-> DefaultDi]

\* ProcessImage::new
ProcessImageNew(data, ext, s) ==
    LET format == FormatFromExtension(ext)
        loaded == ImageLoad(data, format, s)
    IN  IF format = "None" THEN [status |-> "ParamsInvalid", img |-> DefaultImage]
        ELSE IF ~loaded.ok THEN [status |-> "Image", img |-> DefaultImage]
        ELSE [status |-> "running",
              img |-> [DefaultImage EXCEPT
                          !.original_size = data.len,
                          !.di = loaded.di,
                          !.buffer = [data EXCEPT !.src = s, !.at = s],
                          !.ext = ext]]

\* LoaderProcess::fetch_data (LoaderProcess::process returns its result)
FetchData(data, hint, s) ==
    IF StartsWithHttp(data)
    THEN IF ~IsUrl(data) THEN {[status |-> "Reqwest", img |-> DefaultImage]}
         ELSE {[status |-> "Reqwest", img |-> DefaultImage],
               [status |-> "HTTPHeaderToStr", img |-> DefaultImage]}
              \cup {ProcessImageNew(b,
                        IF Len(ContentTypePieces(ct)) = 2 THEN ContentTypePieces(ct)[2]
                        ELSE hint,
                        s) : b \in WorldBytes, ct \in ContentTypes}
    ELSE IF StartsWithFile(data)
    THEN {[status |-> "Io", img |-> DefaultImage]}
         \cup {ProcessImageNew(b, FileExt(data), s) : b \in WorldBytes}
    ELSE IF Base64Decode(data).ok
         THEN {ProcessImageNew(Base64Decode(data).bytes, hint, s)}
         ELSE {[status |-> "Base64Decode", img |-> DefaultImage]}

\* DynamicImage::to_rgba8 wrapped in Some
Snapshot(di) == [some |-> TRUE, w |-> di.w, h |-> di.h, ver |-> di.ver]

\* The PROCESS_LOAD arm taking the snapshot only when there is none yet.
LoadArmFirstSnapshot(params, img, s) ==
    IF Len(params) < 2 THEN {Err("panic", img)}
    ELSE LET data == params[2]
             ext == IF Len(params) >= 3 THEN params[3] ELSE ""
         IN  {IF r.status = "running"
              THEN Ok([r.img EXCEPT !.original = IF img.original.some THEN img.original
                                                 ELSE Snapshot(r.img.di)])
              ELSE Err(r.status, img) : r \in FetchData(data, ext, s)}

\* run, the PROCESS_LOAD arm.  sub_params[0] is indexed without a check.
LoadArm(params, img, s) ==
    IF Len(params) < 2 THEN {Err("panic", img)}
    ELSE LET data == params[2]
             ext == IF Len(params) >= 3 THEN params[3] ELSE ""
         IN  {IF r.status = "running"
              THEN Ok([r.img EXCEPT !.original = Snapshot(r.img.di)])
              ELSE Err(r.status, img) : r \in FetchData(data, ext, s)}

\* ---------------------------------------------------------------- resize
Min(a, b) == IF a < b THEN a ELSE b

\* a * b on u32, wrapped at 2^32: units * unit, and whether the product
\* passed 2^32.  A product with a factor that is a multiple of 2^16 is counted
\* in units of 2^16, which keeps every number of the computation below 2^31;
\* every other product of the sizes of the model is below 2^31 as it stands.
U32Mul(a, b) ==
    IF a % U32Half = 0 \/ b % U32Half = 0
    THEN LET m == IF a % U32Half = 0 THEN (a \div U32Half) * b ELSE a * (b \div U32Half)
         IN  [units |-> m % U32Half, unit |-> U32Half, overflow |-> m >= U32Half]
    ELSE [units |-> a * b, unit |-> 1, overflow |-> FALSE]

\* p / c on u32, for c # 0
U32Div(p, c) ==
    IF p.unit = 1 THEN p.units \div c
    ELSE IF c % U32Half = 0 THEN p.units \div (c \div U32Half)
    ELSE (p.units * U32Half) \div c

\* a * b / c on u32.  A product that passes 2^32 panics where overflow checks
\* are compiled in and wraps where they are not; a division by zero panics.
MulDivU32(a, b, c) ==
    LET p == U32Mul(a, b)
    IN  (IF p.overflow THEN {[ok |-> FALSE, v |-> 0]} ELSE {})
        \cup {IF c # 0 THEN [ok |-> TRUE, v |-> U32Div(p, c)] ELSE [ok |-> FALSE, v |-> 0]}

\* image::imageops::resize: a picture of the asked size.  What it does with a
\* picture that has no pixels is the library's business: it returns or panics.
ImageopsResize(di, w, h, s) ==
    {[ok |-> TRUE, di |-> [w |-> w, h |-> h, ver |-> s]]}
    \cup (IF di.w = 0 \/ di.h = 0 THEN {[ok |-> FALSE, di |-> di]} ELSE {})

\* ResizeProcess::process
ResizeProcess(width0, height0, img, s) ==
    IF width0 = 0 /\ height0 = 0 THEN {Ok(img)}
    ELSE LET width == img.di.w
             height == img.di.h
             ws == IF width0 = 0 THEN MulDivU32(width, height0, height)
                   ELSE {[ok |-> TRUE, v |-> width0]}
         IN  UNION {
               IF ~w.ok THEN {Err("panic", img)}
               ELSE LET hs == IF height0 = 0 THEN MulDivU32(height, w.v, width)
                              ELSE {[ok |-> TRUE, v |-> height0]}
                    IN  UNION {
                          IF ~h.ok THEN {Err("panic", img)}
                          ELSE {IF r.ok
                                THEN Ok([img EXCEPT !.buffer = EmptyBuffer, !.di = r.di])
                                ELSE Err("panic", img) :
                                    r \in ImageopsResize(img.di, w.v, h.v, s)} : h \in hs}
               : w \in ws}

\* run, the PROCESS_RESIZE arm
ResizeArm(params, img, s) ==
    IF ~(Len(params) - 1 >= 2) THEN {Err("ParamsInvalid", img)}
    ELSE IF ~ParseU32(params[2]).ok THEN {Err("ParseInt", img)}
    ELSE IF ~ParseU32(params[3]).ok THEN {Err("ParseInt", img)}
    ELSE ResizeProcess(ParseU32(params[2]).v, ParseU32(params[3]).v, img, s)

\* ------------------------------------------------------------------ gray
\* GrayProcess::process without the clearing of the stored bytes.
GrayProcessKeepsBuffer(img, s) ==
    {Ok([img EXCEPT !.di = [w |-> img.di.w, h |-> img.di.h, ver |-> s]])}

\* GrayProcess::process
GrayProcess(img, s) ==
    {Ok([img EXCEPT !.di = [w |-> img.di.w, h |-> img.di.h, ver |-> s],
                    !.buffer = EmptyBuffer])}

\* run, the PROCESS_GRAY arm
GrayArm(params, img, s) == GrayProcess(img, s)

\* ------------------------------------------------------------------ crop
\* image::imageops::crop clamps the rectangle to the picture.
ImageopsCrop(di, x, y, width, height, s) ==
    LET cx == Min(x, di.w)
        cy == Min(y, di.h)
    IN  [w |-> Min(width, di.w - cx), h |-> Min(height, di.h - cy), ver |-> s]

\* CropProcess::process marking the score as not computable.
CropProcessScores(x, y, width, height, img, s) ==
    {Ok([img EXCEPT !.di = ImageopsCrop(img.di, x, y, width, height, s),
                    !.buffer = EmptyBuffer,
                    !.diff = -1])}

\* CropProcess::process
CropProcess(x, y, width, height, img, s) ==
    {Ok([img EXCEPT !.di = ImageopsCrop(img.di, x, y, width, height, s),
                    !.buffer = EmptyBuffer])}

\* run, the PROCESS_CROP arm
CropArm(params, img, s) ==
    IF ~(Len(params) - 1 >= 4) THEN {Err("ParamsInvalid", img)}
    ELSE IF \E i \in 2..5 : ~ParseU32(params[i]).ok THEN {Err("ParseInt", img)}
    ELSE CropProcess(ParseU32(params[2]).v, ParseU32(params[3]).v,
                     ParseU32(params[4]).v, ParseU32(params[5]).v, img, s)

\* ------------------------------------------------------------- watermark
\* urlencoding::decode on the watermark references of the model: "%FF" is
\* not UTF-8 once decoded.
UrlDecode(str) ==
    CASE str = "file%3A%2F%2F%2Fa.png" -> [ok |-> TRUE, v |-> "file:///a.png"]
      [] str = "%FF" -> [ok |-> FALSE, v |-> ""]
      [] OTHER -> [ok |-> TRUE, v |-> str]

\* impl From<&str> for WatermarkPosition
WatermarkPositionFrom(value) ==
    IF value \in {"leftTop", "top", "rightTop", "left", "center", "right",
                  "leftBottom", "bottom"}
    THEN value ELSE "rightBottom"

\* Halving that rounds toward zero, as the / of i64 does.
HalfTowardZero(v) == IF v >= 0 THEN v \div 2 ELSE -((-v) \div 2)

\* i64 >> 1: the shift keeps the sign and rounds toward minus infinity.
Shr1(v) == v \div 2

\* WatermarkProcess::process, the offset the watermark is laid at
WatermarkOffset(position, w, h, ww, wh, margin_left, margin_top) ==
    LET x == CASE position \in {"top", "center", "bottom"} -> Shr1(w - ww)
               [] position \in {"rightTop", "right", "rightBottom"} -> w - ww
               [] OTHER -> 0
        y == CASE position \in {"left", "center", "right"} -> Shr1(h - wh)
               [] position \in {"leftBottom", "bottom", "rightBottom"} -> h - wh
               [] OTHER -> 0
    IN  [x |-> x + margin_left, y |-> y + margin_top]

\* WatermarkProcess::process: overlay writes the host's pixels in place.  The
\* outcome keeps the offset the watermark was laid at and the watermark's size.
WatermarkProcess(watermark, position, margin_left, margin_top, img, s) ==
    LET at == WatermarkOffset(position, img.di.w, img.di.h,
                              watermark.w, watermark.h, margin_left, margin_top)
    IN  {[Ok([img EXCEPT !.buffer = EmptyBuffer,
                         !.di = [w |-> img.di.w, h |-> img.di.h, ver |-> s]])
            EXCEPT !.at = [x |-> at.x, y |-> at.y, ww |-> watermark.w, wh |-> watermark.h]]}

\* The PROCESS_WATERMARK arm passing over a watermark that cannot be loaded.
WatermarkArmSwallows(params, img, s) ==
    IF Len(params) - 1 = 0 THEN {Err("ParamsInvalid", img)}
    ELSE IF ~UrlDecode(params[2]).ok THEN {Err("FromUtf", img)}
    ELSE IF Len(params) - 1 > 2 /\ ~ParseI64(params[4]).ok THEN {Err("ParseInt", img)}
    ELSE IF Len(params) - 1 > 3 /\ ~ParseI64(params[5]).ok THEN {Err("ParseInt", img)}
    ELSE LET url == UrlDecode(params[2]).v
             position == IF Len(params) - 1 > 1 THEN WatermarkPositionFrom(params[3])
                         ELSE "rightBottom"
             margin_left == IF Len(params) - 1 > 2 THEN ParseI64(params[4]).v ELSE 0
             margin_top == IF Len(params) - 1 > 3 THEN ParseI64(params[5]).v ELSE 0
         IN  UNION {IF r.status = "running"
                    THEN WatermarkProcess(r.img.di, position, margin_left, margin_top, img, s)
                    ELSE {Ok(img)} : r \in FetchData(url, "", s)}

\* run, the PROCESS_WATERMARK arm
WatermarkArm(params, img, s) ==
    IF Len(params) - 1 = 0 THEN {Err("ParamsInvalid", img)}
    ELSE IF ~UrlDecode(params[2]).ok THEN {Err("FromUtf", img)}
    ELSE IF Len(params) - 1 > 2 /\ ~ParseI64(params[4]).ok THEN {Err("ParseInt", img)}
    ELSE IF Len(params) - 1 > 3 /\ ~ParseI64(params[5]).ok THEN {Err("ParseInt", img)}
    ELSE LET url == UrlDecode(params[2]).v
             position == IF Len(params) - 1 > 1 THEN WatermarkPositionFrom(params[3])
                         ELSE "rightBottom"
             margin_left == IF Len(params) - 1 > 2 THEN ParseI64(params[4]).v ELSE 0
             margin_top == IF Len(params) - 1 > 3 THEN ParseI64(params[5]).v ELSE 0
         IN  UNION {IF r.status = "running"
                    THEN WatermarkProcess(r.img.di, position, margin_left, margin_top, img, s)
                    ELSE {Err(r.status, img)} : r \in FetchData(url, "", s)}

\* ----------------------------------------------------------------- optim
\* ImageInfo::to_png / to_avif / to_webp / to_mozjpeg: bytes of some length
\* holding the pixels.  to_png refuses a quality above 100; what the encoders
\* do with a picture that has no pixels is theirs to decide.
Encode(fmt, di, quality, speed, s) ==
    LET bytes == {[len |-> l, fmt |-> fmt, w |-> di.w, h |-> di.h, src |-> di.ver, at |-> s] :
                      l \in 1..MaxLen}
    IN  IF fmt = "Png" /\ quality > 100 THEN {[status |-> "Images", data |-> EmptyBuffer]}
        ELSE {[status |-> "running", data |-> b] : b \in bytes}
             \cup (IF di.w = 0 \/ di.h = 0
                   THEN {[status |-> "Images", data |-> EmptyBuffer],
                         [status |-> "panic", data |-> EmptyBuffer]}
                   ELSE {})

\* to_gif: decodes the frames of the bytes it is given and encodes them again.
ToGif(buffer, speed, s) ==
    IF buffer.fmt # "Gif" \/ buffer.len = 0
    THEN {[status |-> "Images", data |-> EmptyBuffer]}
    ELSE {[status |-> "running",
           data |-> [len |-> l, fmt |-> "Gif", w |-> buffer.w, h |-> buffer.h,
                     src |-> buffer.src, at |-> s]] : l \in 1..MaxLen}

\* ProcessImage::support_dssim
SupportDssim(img) == img.ext # IMAGE_TYPE_GIF

\* OptimProcess::process, the decoding of the adopted bytes: avif_decode, or
\* image::load with the format of the extension (unwrap of no format panics).
\* A decoder can refuse bytes an encoder wrote.
Redecode(img, s) ==
    LET format == FormatFromExtension(img.ext)
        decoded == [w |-> img.buffer.w, h |-> img.buffer.h, ver |-> s]
    IN  IF img.ext # IMAGE_TYPE_AVIF /\ format = "None" THEN {[status |-> "panic", di |-> img.di]}
        ELSE {[status |-> "Ok", di |-> decoded], [status |-> "Err", di |-> img.di]}

\* The encoder dispatch with a gif arm that encodes the current pixels.
OptimEncodeGifFromPixels(output_type, img, quality, speed, s) ==
    CASE output_type = IMAGE_TYPE_GIF ->
            {[status |-> t.status, data |-> t.data, ext |-> output_type,
              enc |-> [fmt |-> "Gif", quality |-> 0, speed |-> GifSpeed]] :
                t \in Encode("Gif", img.di, 0, GifSpeed, s)}
      [] output_type = IMAGE_TYPE_PNG ->
            {[status |-> t.status, data |-> t.data, ext |-> output_type,
              enc |-> [fmt |-> "Png", quality |-> quality, speed |-> 0]] :
                t \in Encode("Png", img.di, quality, 0, s)}
      [] output_type = IMAGE_TYPE_AVIF ->
            {[status |-> t.status, data |-> t.data, ext |-> output_type,
              enc |-> [fmt |-> "Avif", quality |-> quality,
                       speed |-> IF speed = 0 THEN AvifDefaultSpeed ELSE speed]] :
                t \in Encode("Avif", img.di, quality, speed, s)}
      [] output_type = IMAGE_TYPE_WEBP ->
            {[status |-> t.status, data |-> t.data, ext |-> output_type,
              enc |-> [fmt |-> "WebP", quality |-> quality, speed |-> 0]] :
                t \in Encode("WebP", img.di, quality, 0, s)}
      [] OTHER ->
            {[status |-> t.status, data |-> t.data, ext |-> IMAGE_TYPE_JPEG,
              enc |-> [fmt |-> "Jpeg", quality |-> quality, speed |-> 0]] :
                t \in Encode("Jpeg", img.di, quality, 0, s)}

\* The encoder dispatch with a JPEG arm that leaves the format field as asked.
OptimEncodeKeepsName(output_type, img, quality, speed, s) ==
    CASE output_type = IMAGE_TYPE_GIF ->
            {[status |-> t.status, data |-> t.data, ext |-> output_type,
              enc |-> [fmt |-> "Gif", quality |-> 0, speed |-> GifSpeed]] :
                t \in ToGif(img.buffer, GifSpeed, s)}
      [] output_type = IMAGE_TYPE_PNG ->
            {[status |-> t.status, data |-> t.data, ext |-> output_type,
              enc |-> [fmt |-> "Png", quality |-> quality, speed |-> 0]] :
                t \in Encode("Png", img.di, quality, 0, s)}
      [] output_type = IMAGE_TYPE_AVIF ->
            {[status |-> t.status, data |-> t.data, ext |-> output_type,
              enc |-> [fmt |-> "Avif", quality |-> quality,
                       speed |-> IF speed = 0 THEN AvifDefaultSpeed ELSE speed]] :
                t \in Encode("Avif", img.di, quality, speed, s)}
      [] output_type = IMAGE_TYPE_WEBP ->
            {[status |-> t.status, data |-> t.data, ext |-> output_type,
              enc |-> [fmt |-> "WebP", quality |-> quality, speed |-> 0]] :
                t \in Encode("WebP", img.di, quality, 0, s)}
      [] OTHER ->
            {[status |-> t.status, data |-> t.data, ext |-> output_type,
              enc |-> [fmt |-> "Jpeg", quality |-> quality, speed |-> 0]] :
                t \in Encode("Jpeg", img.di, quality, 0, s)}

\* OptimProcess::process, the encoder the output type selects
OptimEncode(output_type, img, quality, speed, s) ==
    CASE output_type = IMAGE_TYPE_GIF ->
            {[status |-> t.status, data |-> t.data, ext |-> output_type,
              enc |-> [fmt |-> "Gif", quality |-> 0, speed |-> GifSpeed]] :
                t \in ToGif(img.buffer, GifSpeed, s)}
      [] output_type = IMAGE_TYPE_PNG ->
            {[status |-> t.status, data |-> t.data, ext |-> output_type,
              enc |-> [fmt |-> "Png", quality |-> quality, speed |-> 0]] :
                t \in Encode("Png", img.di, quality, 0, s)}
      [] output_type = IMAGE_TYPE_AVIF ->
            {[status |-> t.status, data |-> t.data, ext |-> output_type,
              enc |-> [fmt |-> "Avif", quality |-> quality,
                       speed |-> IF speed = 0 THEN AvifDefaultSpeed ELSE speed]] :
                t \in Encode("Avif", img.di, quality, speed, s)}
      [] output_type = IMAGE_TYPE_WEBP ->
            {[status |-> t.status, data |-> t.data, ext |-> output_type,
              enc |-> [fmt |-> "WebP", quality |-> quality, speed |-> 0]] :
                t \in Encode("WebP", img.di, quality, 0, s)}
      [] OTHER ->
            {[status |-> t.status, data |-> t.data, ext |-> IMAGE_TYPE_JPEG,
              enc |-> [fmt |-> "Jpeg", quality |-> quality, speed |-> 0]] :
                t \in Encode("Jpeg", img.di, quality, 0, s)}

\* Adopts with the size test loosened to "not larger".
AdoptsNotLarger(ext, original_type, data_len, original_size) ==
    ext # original_type \/ data_len <= original_size

\* Adopts deciding on the sizes alone.
AdoptsOnSizeOnly(ext, original_type, data_len, original_size) ==
    data_len < original_size \/ original_size = 0

\* OptimProcess::process, the test that adopts the new bytes
Adopts(ext, original_type, data_len, original_size) ==
    ext # original_type \/ data_len < original_size \/ original_size = 0

\* OptimProcess::process
OptimProcess(target, quality, speed, img, s) ==
    LET original_type == img.ext
        original_size == img.buffer.len
        output_type == IF target = "" THEN original_type ELSE target
    IN  UNION {
          IF e.status # "running" THEN {[Err(e.status, img) EXCEPT !.enc = e.enc]}
          ELSE LET typed == [img EXCEPT !.ext = e.ext]
               IN  IF Adopts(typed.ext, original_type, e.data.len, original_size)
                   THEN LET adopted == [typed EXCEPT !.buffer = e.data]
                        IN  IF SupportDssim(adopted)
                            THEN {CASE d.status = "Ok" ->
                                          [Ok([adopted EXCEPT !.di = d.di])
                                              EXCEPT !.data = e.data, !.enc = e.enc]
                                    [] d.status = "Err" ->
                                          [Ok(adopted) EXCEPT !.data = e.data, !.enc = e.enc]
                                    [] OTHER ->
                                          [Err("panic", img) EXCEPT !.data = e.data, !.enc = e.enc] :
                                      d \in Redecode(adopted, s)}
                            ELSE {[Ok(adopted) EXCEPT !.data = e.data, !.enc = e.enc]}
                   ELSE {[Ok(typed) EXCEPT !.data = e.data, !.enc = e.enc]}
          : e \in OptimEncode(output_type, img, quality, speed, s)}

\* The PROCESS_OPTIM arm asking for at least three arguments.
OptimArmAtLeast3(params, img, s) ==
    IF ~(Len(params) - 1 >= 3) THEN {Err("ParamsInvalid", img)}
    ELSE IF ~ParseU8(params[3]).ok THEN {Err("ParseInt", img)}
    ELSE IF ~ParseU8(params[4]).ok THEN {Err("ParseInt", img)}
    ELSE OptimProcess(params[2], ParseU8(params[3]).v, ParseU8(params[4]).v, img, s)

\* run, the PROCESS_OPTIM arm
OptimArm(params, img, s) ==
    IF ~(Len(params) - 1 = 3) THEN {Err("ParamsInvalid", img)}
    ELSE IF ~ParseU8(params[3]).ok THEN {Err("ParseInt", img)}
    ELSE IF ~ParseU8(params[4]).ok THEN {Err("ParseInt", img)}
    ELSE OptimProcess(params[2], ParseU8(params[3]).v, ParseU8(params[4]).v, img, s)

\* ------------------------------------------------------------------ diff
\* Dssim::compare: a distance that is never negative, 0 for the same pixels.
DssimCompare(original, di) ==
    IF original.ver = di.ver THEN {0} ELSE 0..MaxDssim

\* get_diff without the comparison of the sizes.
GetDiffAnySize(img) ==
    IF ~img.original.some THEN {-1}
    ELSE IF ~SupportDssim(img) THEN {-1}
    ELSE {value * DiffScale : value \in DssimCompare(img.original, img.di)}

\* ProcessImage::get_diff
GetDiff(img) ==
    IF ~img.original.some THEN {-1}
    ELSE IF ~SupportDssim(img) THEN {-1}
    ELSE IF img.original.w # img.di.w \/ img.original.h # img.di.h THEN {-1}
    ELSE {value * DiffScale : value \in DssimCompare(img.original, img.di)}

\* A PROCESS_DIFF arm that does nothing when there is no original.
DiffArmSkipsWithoutOriginal(params, img, s) ==
    IF ~img.original.some THEN {Ok(img)}
    ELSE {Ok([img EXCEPT !.diff = d]) : d \in GetDiff(img)}

\* run, the PROCESS_DIFF arm
DiffArm(params, img, s) == {Ok([img EXCEPT !.diff = d]) : d \in GetDiff(img)}

\* ProcessImage::get_buffer: the stored bytes, or the pixels encoded in the
\* format of the extension (JPEG when the extension names none).
GetBuffer(img, s) ==
    IF img.buffer.len = 0
    THEN LET format == IF FormatFromExtension(img.ext) = "None" THEN "Jpeg"
                       ELSE FormatFromExtension(img.ext)
         IN  {[len |-> l, fmt |-> format, w |-> img.di.w, h |-> img.di.h,
               src |-> img.di.ver, at |-> s] : l \in 1..MaxLen}
    ELSE {img.buffer}

\* ------------------------------------------------------------------- run
Recognized ==
    {PROCESS_LOAD, PROCESS_RESIZE, PROCESS_OPTIM, PROCESS_CROP, PROCESS_GRAY,
     PROCESS_WATERMARK, PROCESS_DIFF}

\* run, the match on params[0]; an empty descriptor is passed over before it.
Kind(params) ==
    IF params = <<>> THEN "empty"
    ELSE IF params[1] \in Recognized THEN params[1]
    ELSE "unknown"

\* A default arm that treats the unknown step as one that wrote pixels.
DefaultArmClears(params, img, s) == {Ok([img EXCEPT !.buffer = EmptyBuffer])}

\* run, the default arm of the match: nothing is done.
DefaultArm(params, img, s) == {Ok(img)}

\* run, one iteration of the loop on one descriptor
RunArm(params, img, s) ==
    CASE Kind(params) = PROCESS_LOAD -> LoadArm(params, img, s)
      [] Kind(params) = PROCESS_RESIZE -> ResizeArm(params, img, s)
      [] Kind(params) = PROCESS_GRAY -> GrayArm(params, img, s)
      [] Kind(params) = PROCESS_OPTIM -> OptimArm(params, img, s)
      [] Kind(params) = PROCESS_CROP -> CropArm(params, img, s)
      [] Kind(params) = PROCESS_WATERMARK -> WatermarkArm(params, img, s)
      [] Kind(params) = PROCESS_DIFF -> DiffArm(params, img, s)
      [] OTHER -> DefaultArm(params, img, s)

\* The descriptors a caller can hand to run.
LoadDescs ==
    {<<"load">>, <<"load", "http://h/a">>, <<"load", "httpAAAA", "png">>,
     <<"load", "file:///a.png">>, <<"load", "file:///a.jpg", "png">>,
     <<"load", "file:///a.gif">>, <<"load", "%%", "png">>, <<"load", "iVBO">>,
     <<"load", "iVBO", "png">>, <<"load", "iVBO", "PNG">>}
ResizeDescs ==
    {<<"resize", "1">>, <<"resize", "65536", "0">>}
    \cup {<<"resize", a, b>> : a \in {"0", "1", "x"}, b \in {"0", "3", "-1"}}
CropDescs ==
    {<<"crop", "0", "0", "1">>, <<"crop", "x", "0", "1", "1">>, <<"crop", "0", "0", "1", "-1">>,
     <<"crop", "0", "0", "0", "0">>}
    \cup {<<"crop", x, "0", w, "1">> : x \in {"0", "1"}, w \in {"1", "3"}}
GrayDescs == {<<"gray">>}
OptimDescs ==
    {<<"optim">>, <<"optim", "png", "80">>, <<"optim", "png", "80", "3", "0">>,
     <<"optim", "png", "256", "3">>, <<"optim", "png", "80", "x">>,
     <<"optim", "gif", "80", "3">>}
    \cup {<<"optim", t, "80", "0">> :
            t \in {"", "png", "gif", "jpeg", "jpg", "webp", "avif", "bmp"}}
WatermarkDescs ==
    {<<"watermark">>, <<"watermark", "%FF", "center", "x">>,
     <<"watermark", "file%3A%2F%2F%2Fa.png">>,
     <<"watermark", "file:///a.png", "center", "x">>,
     <<"watermark", "file:///a.png", "center", "0", "1.5">>}
    \cup {<<"watermark", "file:///a.png", p, l, "1">> :
            p \in {"center", "middle"}, l \in {"0", "-1"}}
    \cup {<<"watermark", "file:///a.png", p>> :
            p \in {"leftTop", "top", "rightTop", "left", "right", "leftBottom", "bottom"}}
DiffDescs == {<<"diff">>}
OtherDescs == {<<>>, <<"rotate", "90">>, <<"Load", "iVBO", "png">>}

Descs ==
    LoadDescs \cup ResizeDescs \cup CropDescs \cup GrayDescs \cup OptimDescs
    \cup WatermarkDescs \cup DiffDescs \cup OtherDescs

VARIABLES
    given,   \* tasks holds the whole argument of run; otherwise its descriptors are
             \* drawn one at a time, as the loop reaches them
    tasks,   \* the argument of run
    pos,     \* how many descriptors the loop has consumed
    img,     \* run's local img
    status,  \* "running", "ok" (run returned Ok(img)), an error kind, or "panic"
    gen,     \* how many recognized steps have run: the stamp of pixels and bytes
    last,    \* the last descriptor consumed, the image before it, what the step observed
    dirty    \* a step wrote pixels after the last successful load or optim

vars == <<given, tasks, pos, img, status, gen, last, dirty>>

NoStep ==
    [params |-> <<>>, before |-> DefaultImage, data |-> EmptyBuffer, enc |-> NoEnc, at |-> NoAt]

\* An iterator that passes over every other descriptor.
NextPosSkipsOne(p) == p + 2

\* for params in tasks: the iterator moves to the next descriptor.
NextPos(p) == p + 1

\* The step on params ends with outcome o.
Apply(params, o) ==
    /\ img' = o.img
    /\ status' = o.status
    /\ last' = [params |-> params, before |-> img, data |-> o.data, enc |-> o.enc, at |-> o.at]
    /\ gen' = IF Kind(params) \in Recognized THEN gen + 1 ELSE gen
    /\ pos' = NextPos(pos)
    /\ UNCHANGED <<given, tasks>>

\* for params in tasks: the descriptors the loop can meet next.
Upcoming ==
    IF given THEN (IF pos < Len(tasks) THEN {tasks[pos + 1]} ELSE {})
    ELSE (IF pos < MaxTasks THEN Descs ELSE {})

Load ==
    /\ status = "running"
    /\ \E params \in Upcoming :
          /\ Kind(params) = PROCESS_LOAD
          /\ \E o \in LoadArm(params, img, gen + 1) :
                Apply(params, o) /\ dirty' = IF o.status = "running" THEN FALSE ELSE dirty

Resize ==
    /\ status = "running"
    /\ \E params \in Upcoming :
          /\ Kind(params) = PROCESS_RESIZE
          /\ \E o \in ResizeArm(params, img, gen + 1) :
                /\ Apply(params, o)
                /\ dirty' = IF o.status = "running"
                               /\ (ParseU32(params[2]).v # 0 \/ ParseU32(params[3]).v # 0)
                            THEN TRUE ELSE dirty

Gray ==
    /\ status = "running"
    /\ \E params \in Upcoming :
          /\ Kind(params) = PROCESS_GRAY
          /\ \E o \in GrayArm(params, img, gen + 1) :
                Apply(params, o) /\ dirty' = IF o.status = "running" THEN TRUE ELSE dirty

Optim ==
    /\ status = "running"
    /\ \E params \in Upcoming :
          /\ Kind(params) = PROCESS_OPTIM
          /\ \E o \in OptimArm(params, img, gen + 1) :
                Apply(params, o) /\ dirty' = IF o.status = "running" THEN FALSE ELSE dirty

Crop ==
    /\ status = "running"
    /\ \E params \in Upcoming :
          /\ Kind(params) = PROCESS_CROP
          /\ \E o \in CropArm(params, img, gen + 1) :
                Apply(params, o) /\ dirty' = IF o.status = "running" THEN TRUE ELSE dirty

Watermark ==
    /\ status = "running"
    /\ \E params \in Upcoming :
          /\ Kind(params) = PROCESS_WATERMARK
          /\ \E o \in WatermarkArm(params, img, gen + 1) :
                Apply(params, o) /\ dirty' = IF o.status = "running" THEN TRUE ELSE dirty

Diff ==
    /\ status = "running"
    /\ \E params \in Upcoming :
          /\ Kind(params) = PROCESS_DIFF
          /\ \E o \in DiffArm(params, img, gen + 1) :
                Apply(params, o) /\ UNCHANGED dirty

\* An empty descriptor (continue) or a name the match does not know.
Skip ==
    /\ status = "running"
    /\ \E params \in Upcoming :
          /\ Kind(params) \in {"empty", "unknown"}
          /\ \E o \in DefaultArm(params, img, gen + 1) :
                Apply(params, o) /\ UNCHANGED dirty

\* run returns Ok(img) once the list is exhausted.
Finish ==
    /\ status = "running"
    /\ given => pos = Len(tasks)
    /\ status' = "ok"
    /\ UNCHANGED <<given, tasks, pos, img, gen, last, dirty>>

Init ==
    /\ given = FALSE
    /\ tasks = <<>>
    /\ pos = 0
    /\ img = DefaultImage
    /\ status = "running"
    /\ gen = 0
    /\ last = NoStep
    /\ dirty = FALSE

Next ==
    \/ Load
    \/ Resize
    \/ Gray
    \/ Optim
    \/ Crop
    \/ Watermark
    \/ Diff
    \/ Skip
    \/ Finish

\* run on every list of at most MaxTasks descriptors of Descs: the next
\* descriptor is drawn when the loop reaches it, and the list can end after
\* any of them.
Spec == Init /\ [][Next]_vars

\* ------------------------------------------------------ run on a given list
\* The descriptors of the lists run is given whole.
RunDescs ==
    {<<"load", "iVBO", "png">>, <<"gray">>, <<"resize", "1", "0">>, <<"resize", "1">>,
     <<"crop", "0", "0", "1", "1">>, <<"optim", "", "80", "0">>, <<"optim", "jpeg", "80", "0">>,
     <<"watermark", "file:///a.png">>, <<"diff">>, <<"rotate", "90">>, <<>>}

TaskLists == UNION {[1..k -> RunDescs] : k \in 0..MaxRun}

InitRun ==
    /\ given = TRUE
    /\ tasks \in TaskLists
    /\ pos = 0
    /\ img = DefaultImage
    /\ status = "running"
    /\ gen = 0
    /\ last = NoStep
    /\ dirty = FALSE

\* run on every list of at most MaxRun descriptors of RunDescs.
SpecRun == InitRun /\ [][Next]_vars

\* run as a left fold: the states the loop can be in after the descriptors
\* of ts, from the states of S.  A step that fails ends the fold of its branch.
RECURSIVE RunFrom(_, _)
RunFrom(ts, S) ==
    IF ts = <<>> THEN S
    ELSE RunFrom(Tail(ts),
            UNION {IF st.status # "running" THEN {st}
                   ELSE {[status |-> o.status, img |-> o.img,
                          gen |-> IF Kind(Head(ts)) \in Recognized THEN st.gen + 1 ELSE st.gen] :
                            o \in RunArm(Head(ts), st.img, st.gen + 1)} : st \in S})

RunStates(ts) == RunFrom(ts, {[status |-> "running", img |-> DefaultImage, gen |-> 0]})

\* What run hands back: Ok(img), or an error and no image.
Returned(st, im) ==
    IF st \in {"running", "ok"} THEN [status |-> "ok", img |-> im]
    ELSE [status |-> st, img |-> DefaultImage]

RunResults(ts) == {Returned(st.status, st.img) : st \in RunStates(ts)}

\* ================================================================ claims
\* The last descriptor consumed was of kind k.
Acted(k) == pos > 0 /\ Kind(last.params) = k
\* ... and its step returned Ok.
Succeeded(k) == Acted(k) /\ status \in {"running", "ok"}

\* C1 (as stated): after an optim step the stored bytes are the new bytes
\* exactly when the format field changed, or the new bytes are shorter than
\* the byte size recorded at load time, or that size is 0; otherwise the
\* stored bytes are those of before the step.
C1_AdoptsAgainstLoadSize ==
    Succeeded(PROCESS_OPTIM) =>
        LET wins == \/ img.ext # last.before.ext
                    \/ last.data.len < last.before.original_size
                    \/ last.before.original_size = 0
        IN  /\ (img.buffer = last.data) <=> wins
            /\ ~wins => img.buffer = last.before.buffer

\* C1 (amended): after an optim step the stored bytes are the new bytes
\* exactly when the format field changed, or the new bytes are shorter than
\* the bytes stored before the step, or no bytes were stored before the step;
\* otherwise the stored bytes are those of before the step.
C1_AdoptsAgainstStoredBuffer ==
    Succeeded(PROCESS_OPTIM) =>
        LET wins == \/ img.ext # last.before.ext
                    \/ last.data.len < last.before.buffer.len
                    \/ last.before.buffer.len = 0
        IN  /\ (img.buffer = last.data) <=> wins
            /\ ~wins => img.buffer = last.before.buffer

\* C1 witness: an optim that kept the format adopted bytes that are not
\* shorter than the size recorded at load, the stored bytes having been cleared.
C1_Witness ==
    /\ Succeeded(PROCESS_OPTIM)
    /\ img.ext = last.before.ext
    /\ last.before.buffer.len = 0
    /\ last.before.original_size > 0
    /\ last.data.len >= last.before.original_size
    /\ img.buffer = last.data

\* The optim step kept the image format: the target is empty or names the
\* format of the current extension, an extension load can produce.
SameFormatOptim ==
    /\ Succeeded(PROCESS_OPTIM)
    /\ FormatFromExtension(last.before.ext) # "None"
    /\ \/ last.params[2] = ""
       \/ FormatFromExtension(last.params[2]) = FormatFromExtension(last.before.ext)

\* C2: an optim step that keeps the image format changes bytes that are
\* stored only for new bytes that are strictly shorter; otherwise the bytes
\* after the step are those of before the step.
C2_SameFormatKeepsUnlessSmaller ==
    (SameFormatOptim /\ last.before.buffer.len > 0) =>
        \/ img.buffer = last.before.buffer
        \/ last.data.len < last.before.buffer.len

\* C3: when a step wrote pixels (resize with a non-zero argument, crop, gray,
\* watermark) after the last load or optim, no bytes are stored, and
\* get_buffer gives bytes encoded from the current pixels.
C3_NoStaleBuffer ==
    dirty =>
        /\ img.buffer = EmptyBuffer
        /\ \A b \in GetBuffer(img, gen + 1) : b.src = img.di.ver /\ b.at = gen + 1

\* C3 witness: gray ran on an image whose bytes were stored.
C3_Witness ==
    dirty /\ Succeeded(PROCESS_GRAY) /\ last.before.buffer.len > 0 /\ img.buffer.len = 0

\* C4 (as stated): once the snapshot of the original pixels is set, no later
\* step, a later load included, changes it.
C4_SnapshotSetOnce ==
    (pos > 0 /\ last.before.original.some) => img.original = last.before.original

\* C4 (amended): every successful load step sets the snapshot to the pixels
\* it decoded, replacing the snapshot of an earlier load; no other step
\* (a watermark with its nested load included) changes the snapshot.
C4_SnapshotSetByLoadOnly ==
    /\ Succeeded(PROCESS_LOAD) => img.original = Snapshot(img.di) /\ img.original.ver = gen
    /\ (pos > 0 /\ ~Succeeded(PROCESS_LOAD)) => img.original = last.before.original

\* C4 witness: a second load replaced the snapshot of the first.
C4_Witness ==
    /\ Succeeded(PROCESS_LOAD)
    /\ last.before.original.some
    /\ img.original # last.before.original

C6_RunIsLeftFold ==
    /\ pos <= Len(tasks)
    /\ pos > 0 => last.params = tasks[pos]
    /\ status = "ok" => pos = Len(tasks)
    /\ [status |-> IF status = "ok" THEN "running" ELSE status, img |-> img, gen |-> gen]
          \in RunStates(SubSeq(tasks, 1, pos))
    /\ status # "running" => Returned(status, img) \in RunResults(tasks)

\* C6 witness: run returned Ok after three steps that each changed the image.
C6_Witness ==
    /\ status = "ok" /\ pos = 3 /\ gen = 3
    /\ Kind(tasks[1]) = PROCESS_LOAD
    /\ Kind(tasks[2]) = PROCESS_CROP
    /\ Kind(tasks[3]) = PROCESS_OPTIM
    /\ img.buffer.w = 1

HasKnownName(params) == Kind(params) # "unknown"

\* C7: run on a list gives the outcomes (the image, or the error) of run on
\* the list without the descriptors of unknown name.
C7_UnknownSkipped ==
    /\ RunResults(tasks) = RunResults(SelectSeq(tasks, HasKnownName))
    /\ status # "running" =>
          Returned(status, img) \in RunResults(SelectSeq(tasks, HasKnownName))

\* C7 witness: run returned an image with stored bytes, an unknown name
\* standing after the load.
C7_Witness ==
    /\ status = "ok"
    /\ Len(tasks) >= 2
    /\ Kind(tasks[1]) = PROCESS_LOAD
    /\ Kind(tasks[2]) = "unknown"
    /\ img.buffer.len > 0

\* The descriptor has too few arguments for its operation (optim: not three).
ArityViolated(params) ==
    \/ Kind(params) = PROCESS_RESIZE /\ Len(params) < 3
    \/ Kind(params) = PROCESS_CROP /\ Len(params) < 5
    \/ Kind(params) = PROCESS_WATERMARK /\ Len(params) < 2
    \/ Kind(params) = PROCESS_OPTIM /\ Len(params) # 4

\* C8: a resize with fewer than 2 arguments, a crop with fewer than 4, a
\* watermark with none or an optim with other than 3 makes run fail there
\* with ParamsInvalid: the image is not touched and not returned, and no
\* step follows a failure.
C8_ArityRejected ==
    /\ [](pos > 0 /\ ArityViolated(last.params) =>
             status = "ParamsInvalid" /\ img = last.before)
    /\ [][status \notin {"running"} => UNCHANGED vars]_vars

\* C8 witness: an optim with four arguments failed with ParamsInvalid.
C8_Witness ==
    /\ Acted(PROCESS_OPTIM)
    /\ Len(last.params) = 5
    /\ status = "ParamsInvalid"

\* The strings of the model that read as a u32, a u8, an i64.
U32Strings == {"0", "1", "2", "3", "80", "100", "101", "256", "65536"}
U8Strings == {"0", "1", "2", "3", "80", "100", "101"}
I64Strings == U32Strings \cup {"-1"}

\* The descriptor has the arguments its operation asks for, and one of the
\* numeric ones does not read as the integer type of the operation.
NumberUnparseable(params) ==
    /\ ~ArityViolated(params)
    /\ \/ Kind(params) = PROCESS_RESIZE /\ \E i \in 2..3 : params[i] \notin U32Strings
       \/ Kind(params) = PROCESS_CROP /\ \E i \in 2..5 : params[i] \notin U32Strings
       \/ Kind(params) = PROCESS_OPTIM /\ \E i \in 3..4 : params[i] \notin U8Strings
       \/ /\ Kind(params) = PROCESS_WATERMARK
          /\ \E i \in 4..5 : i <= Len(params) /\ params[i] \notin I64Strings

\* C9 (as stated): a numeric argument that cannot be parsed makes run fail
\* with ParamsInvalid.
C9_UnparseableIsParamsInvalid ==
    (pos > 0 /\ NumberUnparseable(last.params)) => status = "ParamsInvalid"

\* C9 (amended): a numeric argument of resize, crop, optim (quality, speed)
\* or watermark (margins, the reference being decodable) that cannot be
\* parsed makes run fail with a ParseInt error, not ParamsInvalid; the image
\* is not returned.
C9_UnparseableIsParseInt ==
    (/\ pos > 0
     /\ NumberUnparseable(last.params)
     /\ Kind(last.params) = PROCESS_WATERMARK => last.params[2] # "%FF") =>
        status = "ParseInt" /\ img = last.before

\* C9 witness: an optim whose quality does not fit a u8 failed with ParseInt.
C9_Witness ==
    /\ Acted(PROCESS_OPTIM)
    /\ Len(last.params) = 4
    /\ last.params[3] = "256"
    /\ status = "ParseInt"

\* C10: a load descriptor without a data reference makes run return a
\* ParamsInvalid error.
C10_LoadWithoutRefIsParamsInvalid ==
    (pos > 0 /\ last.params = <<"load">>) => status = "ParamsInvalid"

\* The last descriptor was a resize whose two arguments read as u32.
ResizeActed ==
    /\ Acted(PROCESS_RESIZE)
    /\ Len(last.params) >= 3
    /\ ParseU32(last.params[2]).ok
    /\ ParseU32(last.params[3]).ok

\* a * b div c on the integers, whatever the size of the product: with c and
\* one of a, b multiples of 2^16 the quotient is taken in units of 2^16.
ExactMulDiv(a, b, c) ==
    IF a % U32Half = 0 /\ c % U32Half = 0
    THEN ((a \div U32Half) * b) \div (c \div U32Half)
    ELSE IF b % U32Half = 0 /\ c % U32Half = 0
    THEN (a * (b \div U32Half)) \div (c \div U32Half)
    ELSE (a * b) \div c

\* C11: resize(w, h) of a W x H picture returns the image as it was when
\* w = 0 and h = 0, a picture of (W*h div H) x h when only w = 0, of
\* w x (H*w div W) when only h = 0, and of w x h when neither is 0.
C11_ResizeDimensions ==
    (ResizeActed /\ last.before.di.w > 0 /\ last.before.di.h > 0) =>
        LET w == ParseU32(last.params[2]).v
            h == ParseU32(last.params[3]).v
            W == last.before.di.w
            H == last.before.di.h
        IN  /\ status \in {"running", "ok"}
            /\ IF w = 0 /\ h = 0 THEN img = last.before
               ELSE /\ img.di.w = IF w = 0 THEN ExactMulDiv(W, h, H) ELSE w
                    /\ img.di.h = IF h = 0 THEN ExactMulDiv(H, w, W) ELSE h

\* The position keywords of the table; every other keyword, and none at all,
\* stands for rightBottom.
PositionKeywords ==
    {"leftTop", "top", "rightTop", "left", "center", "right", "leftBottom", "bottom",
     "rightBottom"}

\* The position table of a ww x wh watermark on a w x h host, for the
\* halving Half.
PositionTable(Half(_), keyword, w, h, ww, wh) ==
    LET k == IF keyword \in PositionKeywords THEN keyword ELSE "rightBottom"
    IN  [x |-> CASE k \in {"leftTop", "left", "leftBottom"} -> 0
                 [] k \in {"top", "center", "bottom"} -> Half(w - ww)
                 [] OTHER -> w - ww,
         y |-> CASE k \in {"leftTop", "top", "rightTop"} -> 0
                 [] k \in {"left", "center", "right"} -> Half(h - wh)
                 [] OTHER -> h - wh]

\* The last watermark was laid at the table's offset plus the margins, and
\* the host kept its size.
WatermarkLaidBy(Half(_)) ==
    LET p == last.params
        keyword == IF Len(p) >= 3 THEN p[3] ELSE "rightBottom"
        margin_left == IF Len(p) >= 4 THEN ParseI64(p[4]).v ELSE 0
        margin_top == IF Len(p) >= 5 THEN ParseI64(p[5]).v ELSE 0
        table == PositionTable(Half, keyword, last.before.di.w, last.before.di.h,
                               last.at.ww, last.at.wh)
    IN  /\ last.at.x = table.x + margin_left
        /\ last.at.y = table.y + margin_top
        /\ img.di.w = last.before.di.w
        /\ img.di.h = last.before.di.h

\* C12 (as stated): for every host, watermark (larger than the host or not),
\* keyword and margins, the watermark is laid at the table's offset plus the
\* margins, the table halving with the integer division (w-ww)/2, (h-wh)/2,
\* which rounds toward zero; the host keeps its size.
C12_OffsetByDivision ==
    Succeeded(PROCESS_WATERMARK) => WatermarkLaidBy(HalfTowardZero)

\* Halving that rounds toward minus infinity.
HalfDown(v) == IF v % 2 = 0 THEN v \div 2 ELSE (v - 1) \div 2

\* C12 (amended): the same, the table halving with an arithmetic shift
\* right by one, which rounds toward minus infinity: a watermark that is
\* wider (taller) than the host by an odd number of pixels is centred one
\* pixel further left (up) than the division would put it.
C12_OffsetByShift ==
    Succeeded(PROCESS_WATERMARK) => WatermarkLaidBy(HalfDown)

\* C12 witness: a centred watermark one pixel wider than its host was laid
\* at a negative offset, one pixel left of where the division puts it.
C12_Witness ==
    /\ Succeeded(PROCESS_WATERMARK)
    /\ Len(last.params) >= 3
    /\ last.params[3] = "center"
    /\ last.before.di.w - last.at.ww = -1
    /\ last.at.x < 0
    /\ last.at.x # HalfTowardZero(-1) + ParseI64(last.params[4]).v
    /\ img.di.w = last.before.di.w

\* The output types optim has an encoder of their own for.
OwnEncoderTypes == {IMAGE_TYPE_GIF, IMAGE_TYPE_PNG, IMAGE_TYPE_AVIF, IMAGE_TYPE_WEBP}

\* C13: an optim with an empty target keeps the current format; an optim
\* whose effective target (the target, or the current format field when the
\* target is empty) is none of gif, png, avif, webp encodes as JPEG and leaves
\* the format field "jpeg"; an optim with one of these four as target leaves
\* the format field equal to the target.
C13_OptimFormat ==
    Succeeded(PROCESS_OPTIM) =>
        LET target == last.params[2]
            current == last.before.ext
            effective == IF target = "" THEN current ELSE target
        IN  /\ (target = "" /\ FormatFromExtension(current) # "None") =>
                  FormatFromExtension(img.ext) = FormatFromExtension(current)
            /\ effective \notin OwnEncoderTypes =>
                  img.ext = IMAGE_TYPE_JPEG /\ last.enc.fmt = "Jpeg"
            /\ target \in OwnEncoderTypes => img.ext = target

\* C14: an optim with target gif encodes the animation at the speed given in
\* the descriptor, whatever the quality argument.
C14_GifSpeedIsArgument ==
    (Succeeded(PROCESS_OPTIM) /\ last.params[2] = IMAGE_TYPE_GIF) =>
        /\ last.enc.fmt = "Gif"
        /\ last.enc.speed = ParseU8(last.params[4]).v

\* The data reference starts with the scheme of an HTTP or HTTPS URL.
HasHttpScheme(data) == data \in {"http://h/a", "https://h/a"}

\* C15: load takes a reference that starts with an HTTP(S) scheme from the
\* network, one that starts with file:// from the disk (the format being that
\* of the file extension, not the hint), and every other reference as
\* standard base64 with the caller's format hint.
C15_LoadClassifiesByScheme ==
    (Acted(PROCESS_LOAD) /\ Len(last.params) >= 2) =>
        LET data == last.params[2]
            hint == IF Len(last.params) >= 3 THEN last.params[3] ELSE ""
            loaded == status \in {"running", "ok"}
        IN  IF HasHttpScheme(data)
            THEN status \notin {"Io", "Base64Decode"}
            ELSE IF StartsWithFile(data)
            THEN /\ status \notin {"Reqwest", "HTTPHeaderToStr", "Base64Decode"}
                 /\ loaded => img.ext = FileExt(data)
            ELSE /\ status \notin {"Reqwest", "HTTPHeaderToStr", "Io"}
                 /\ ~Base64Decode(data).ok => status = "Base64Decode"
                 /\ loaded =>
                       /\ img.ext = hint
                       /\ img.buffer = [Base64Decode(data).bytes EXCEPT !.src = gen, !.at = gen]

\* The last step was an optim that stored the bytes it encoded.
OptimAdopted == Succeeded(PROCESS_OPTIM) /\ img.buffer = last.data

\* C16: an optim that adopts the new bytes in a format other than GIF
\* replaces the pixels by the decoding of these bytes, or, when the decoding
\* fails, still succeeds with the new bytes and format and the pixels of
\* before.  No other failure is passed over: a step that returned Ok has
\* parsed its arguments, fetched and decoded what it loads, encoded what it
\* stores and written what it writes.
C16_OnlyRedecodeSwallowed ==
    /\ (OptimAdopted /\ img.ext # IMAGE_TYPE_GIF) =>
          /\ \/ img.di = [w |-> last.data.w, h |-> last.data.h, ver |-> gen]
             \/ img.di = last.before.di
          /\ img.ext = IF last.params[2] \in OwnEncoderTypes THEN last.params[2]
                       ELSE IF last.params[2] = "" /\ last.before.ext \in OwnEncoderTypes
                       THEN last.before.ext
                       ELSE IMAGE_TYPE_JPEG
    /\ Succeeded(PROCESS_OPTIM) =>
          /\ ParseU8(last.params[3]).ok /\ ParseU8(last.params[4]).ok
          /\ last.data.len > 0 /\ last.data.at = gen
    /\ Succeeded(PROCESS_LOAD) =>
          /\ img.buffer.len > 0 /\ img.buffer.at = gen
          /\ img.di = [w |-> img.buffer.w, h |-> img.buffer.h, ver |-> gen]
          /\ img.original = Snapshot(img.di)
    /\ Succeeded(PROCESS_WATERMARK) =>
          /\ UrlDecode(last.params[2]).ok
          /\ \A i \in 4..5 : i <= Len(last.params) => ParseI64(last.params[i]).ok
          /\ last.at.ww > 0 /\ last.at.wh > 0
          /\ img.di.ver = gen
    /\ Succeeded(PROCESS_RESIZE) =>
          /\ ParseU32(last.params[2]).ok /\ ParseU32(last.params[3]).ok
          /\ (ParseU32(last.params[2]).v # 0 \/ ParseU32(last.params[3]).v # 0) =>
                img.di.ver = gen
    /\ Succeeded(PROCESS_CROP) =>
          /\ \A i \in 2..5 : ParseU32(last.params[i]).ok
          /\ img.di.ver = gen

\* C16 witness: an optim adopted new bytes in a format other than GIF and
\* succeeded although they could not be decoded: the pixels are those of before.
C16_Witness ==
    /\ OptimAdopted
    /\ img.ext # IMAGE_TYPE_GIF
    /\ last.before.di.w > 0
    /\ img.di = last.before.di
    /\ img.di # [w |-> last.data.w, h |-> last.data.h, ver |-> gen]
    /\ img.ext # last.before.ext

\* C17 (as stated): a diff step executed while there is no original
\* snapshot leaves the whole image value, the score included, as it was.
C17_DiffWithoutOriginalIsNoOp ==
    (Acted(PROCESS_DIFF) /\ ~last.before.original.some) => img = last.before

\* C17 (amended): a diff step executed while there is no original snapshot
\* succeeds, sets the score to the sentinel -1 and leaves every other field
\* of the image value as it was.
C17_DiffWithoutOriginalIsSentinel ==
    (Acted(PROCESS_DIFF) /\ ~last.before.original.some) =>
        /\ status \in {"running", "ok"}
        /\ img = [last.before EXCEPT !.diff = -1]

\* C17 witness: a diff step without an original turned the default score
\* into -1.
C17_Witness ==
    /\ Succeeded(PROCESS_DIFF)
    /\ ~last.before.original.some
    /\ last.before.diff = DefaultImage.diff
    /\ img.diff = -1

\* C18: resize, crop, gray, watermark and optim leave the score and the
\* byte size recorded at load as they were, and the first four leave the
\* format field as it was; a step that is not a diff never computes a
\* score (a load starts from the default image, whose score is unset).
C18_ScoreWrittenByDiffOnly ==
    /\ (pos > 0 /\ Kind(last.params) \in {PROCESS_RESIZE, PROCESS_CROP, PROCESS_GRAY,
                                          PROCESS_WATERMARK, PROCESS_OPTIM}) =>
          /\ img.diff = last.before.diff
          /\ img.original_size = last.before.original_size
    /\ (pos > 0 /\ Kind(last.params) \in {PROCESS_RESIZE, PROCESS_CROP, PROCESS_GRAY,
                                          PROCESS_WATERMARK}) =>
          img.ext = last.before.ext
    /\ (pos > 0 /\ Kind(last.params) \in {"empty", "unknown"}) => img = last.before
    /\ Acted(PROCESS_LOAD) =>
          img.diff = IF status \in {"running", "ok"} THEN DefaultImage.diff
                     ELSE last.before.diff

\* C18 witness: an optim stored new bytes of another length than the size
\* recorded at load, on an image that carries a score written by a diff.
C18_Witness ==
    /\ OptimAdopted
    /\ img.diff # DefaultImage.diff
    /\ img.original_size > 0
    /\ img.buffer.len # img.original_size

\* C19: whenever a resize with exactly one zero argument executes, the
\* picture has a width and a height that are not zero, and the step does not
\* crash.
C19_ResizeDivisorNonZero ==
    (/\ ResizeActed
     /\ (ParseU32(last.params[2]).v = 0) # (ParseU32(last.params[3]).v = 0)) =>
        /\ last.before.di.w # 0
        /\ last.before.di.h # 0
        /\ status # "panic"

\* C20: bytes that are stored are encoded in the format the format field
\* names; an optim that keeps the bytes of before keeps the format field of
\* before, and one that changes the format field stores the bytes it encoded.
C20_BufferMatchesFormat ==
    /\ img.buffer.len > 0 => img.buffer.fmt = FormatFromExtension(img.ext)
    /\ (Succeeded(PROCESS_OPTIM) /\ img.buffer = last.before.buffer) =>
          img.ext = last.before.ext
    /\ (Succeeded(PROCESS_OPTIM) /\ img.ext # last.before.ext) => img.buffer = last.data
    /\ Succeeded(PROCESS_LOAD) => img.buffer.len > 0

\* C20 witness: an optim to the format of the stored bytes encoded bytes
\* that are not shorter and kept the stored bytes and the format field.
C20_Witness ==
    /\ Succeeded(PROCESS_OPTIM)
    /\ last.before.buffer.len > 0
    /\ last.data.len >= last.before.buffer.len
    /\ img.buffer = last.before.buffer
    /\ img.ext = last.before.ext

\* The last descriptor was an optim with three arguments that read, whose
\* effective target (the target, or the format field when it is empty) is t.
OptimActedOn(t) ==
    /\ Acted(PROCESS_OPTIM)
    /\ Len(last.params) = 4
    /\ ParseU8(last.params[3]).ok /\ ParseU8(last.params[4]).ok
    /\ t = IF last.params[2] = "" THEN last.before.ext ELSE last.params[2]

\* C21: an optim to gif encodes the stored bytes, not the pixels: it
\* succeeds only when non-empty GIF bytes are stored, and then its output
\* holds the picture of these bytes; with no bytes stored (after a resize,
\* crop, gray or watermark) or with bytes of another format it fails with an
\* error and the run ends there with the image untouched.
C21_GifFromStoredBuffer ==
    OptimActedOn(IMAGE_TYPE_GIF) =>
        /\ status \in {"running", "ok"} =>
              /\ last.before.buffer.len > 0
              /\ last.before.buffer.fmt = "Gif"
              /\ last.data.fmt = "Gif"
              /\ last.data.src = last.before.buffer.src
              /\ last.data.w = last.before.buffer.w
              /\ last.data.h = last.before.buffer.h
              /\ img.di = last.before.di
        /\ (last.before.buffer.len = 0 \/ last.before.buffer.fmt # "Gif") =>
              status = "Images" /\ img = last.before

\* C21 witness: an optim to gif that came after a step that wrote the pixels
\* of a loaded GIF (the stored bytes cleared) failed with an error.
C21_Witness ==
    /\ OptimActedOn(IMAGE_TYPE_GIF)
    /\ dirty
    /\ last.before.ext = IMAGE_TYPE_GIF
    /\ last.before.di.w > 0
    /\ last.before.buffer.len = 0
    /\ status = "Images"

\* C22: when optim decodes the bytes it adopted and the format is not avif,
\* the format field is one of png, webp, jpeg, so the lookup of its format
\* finds one and the unwrap does not panic: no optim crashes after its
\* encoder has returned bytes.
C22_RedecodeFormatKnown ==
    /\ (OptimAdopted /\ img.ext \notin {IMAGE_TYPE_GIF, IMAGE_TYPE_AVIF}) =>
          /\ img.ext \in {IMAGE_TYPE_PNG, IMAGE_TYPE_WEBP, IMAGE_TYPE_JPEG}
          /\ FormatFromExtension(img.ext) # "None"
    /\ Acted(PROCESS_OPTIM) => ~(status = "panic" /\ last.data.len > 0)

\* C22 witness: an optim to a target without an encoder of its own adopted
\* JPEG bytes under the format field "jpeg" and decoded them.
C22_Witness ==
    /\ OptimAdopted
    /\ last.params[2] = "bmp"
    /\ img.ext = IMAGE_TYPE_JPEG
    /\ img.di = [w |-> last.data.w, h |-> last.data.h, ver |-> gen]
====
